---- MODULE Spec2Model ----
(***************************************************************************)
(* Model of the streaming-chunk normalizer of                              *)
(* src/common/utils_better_code_but_broken.py (_build_chunk_payload and    *)
(* the functions it calls) and of the generator                            *)
(* model_response_stream_to_generic_streaming_chunks of                   *)
(* src/common/utils.py.                                                    *)
(*                                                                         *)
(* Python values are records of one shape, [t, s, n, d]:                   *)
(*   t  the type tag: "none", "str", "int", "bool", "float", "list",       *)
(*      "dict", "obj" (a typed litellm object), "raise" (an exception      *)
(*      that left the function instead of a value);                        *)
(*   s  the text of a str, the kind of a float ("fin", "inf", "nan"),      *)
(*      the class name of an exception;                                    *)
(*   n  the number of an int or bool, the tenths of a finite float;        *)
(*   d  the entries of a list, dict or object, in order, each [k, v]       *)
(*      (k is "" in a list).  A dict keeps insertion order as Python's.    *)
(***************************************************************************)
EXTENDS Integers, Sequences, FiniteSets, TLC

VARIABLES
    pc,                    \* which call is running / has returned
    delta,                 \* _build_delta: its argument
    processed,             \* _build_delta: its return value
    collected_tool_calls,  \* _build_delta: the local list at return
    tool_calls_was_none,   \* _build_delta: the local flag at return
    tool_call,             \* _build_tool_call_delta: its argument
    normalized,            \* _build_tool_call_delta: its return value
    renormalized,          \* _build_tool_call_delta applied to `normalized`
    chunk_data,            \* _build_chunk_payload: its argument
    payload,               \* _build_chunk_payload: its return value
    choice,                \* _build_choice: its argument
    choice_out,            \* _build_choice: its return value
    chunk,                 \* the generator's argument (ModelResponseStream)
    generic_chunk,         \* the generator's GenericStreamingChunk
    yielded                \* the chunks the generator has yielded so far

vars == <<pc, delta, processed, collected_tool_calls, tool_calls_was_none,
          tool_call, normalized, renormalized, chunk_data, payload,
          choice, choice_out, chunk, generic_chunk, yielded>>

----------------------------------------------------------------------------
(* Bounds of the model *)

MaxDeltaKeys == 3
MaxToolCalls == 2
MaxToolCallKeys == 2
MaxChoices == 2
MaxChoiceKeys == 3
MaxChunkKeys == 3
MaxLiteral == 9

----------------------------------------------------------------------------
(* Python values *)

Val(t, s, n, d) == [t |-> t, s |-> s, n |-> n, d |-> d]
None == Val("none", "", 0, <<>>)
Str(s) == Val("str", s, 0, <<>>)
IntV(n) == Val("int", "", n, <<>>)
Bool(b) == Val("bool", "", IF b THEN 1 ELSE 0, <<>>)
FloatTenths(n) == Val("float", "fin", n, <<>>)
FloatInf == Val("float", "inf", 0, <<>>)
FloatNan == Val("float", "nan", 0, <<>>)
Entry(k, v) == [k |-> k, v |-> v]
Dict(entries) == Val("dict", "", 0, entries)
List(items) == Val("list", "", 0, [i \in 1..Len(items) |-> Entry("", items[i])])
Obj(entries) == Val("obj", "", 0, entries)
Raise(name) == Val("raise", name, 0, <<>>)

IsNone(v) == v.t = "none"
IsStr(v) == v.t = "str"
IsDict(v) == v.t = "dict"
IsList(v) == v.t = "list"
IsRaise(v) == v.t = "raise"
Items(v) == [i \in 1..Len(v.d) |-> v.d[i].v]
Keys(m) == [i \in 1..Len(m.d) |-> m.d[i].k]

\* key in m
Has(m, key) == \E i \in 1..Len(m.d) : m.d[i].k = key
\* m.get(key, default); attribute access on a typed object
GetOr(m, key, default) ==
    IF Has(m, key)
    THEN m.d[CHOOSE i \in 1..Len(m.d) : m.d[i].k = key].v
    ELSE default
Get(m, key) == GetOr(m, key, None)
\* m[key] = value: in place when the key exists, at the end otherwise
SetItem(m, key, value) ==
    IF Has(m, key)
    THEN [m EXCEPT !.d = [i \in 1..Len(m.d) |->
              IF m.d[i].k = key THEN Entry(key, value) ELSE m.d[i]]]
    ELSE [m EXCEPT !.d = Append(m.d, Entry(key, value))]
\* the entries of m whose key is not in skip, in order
Others(m, skip) == SelectSeq(m.d, LAMBDA e : e.k \notin skip)

\* bool(v)
Truthy(v) ==
    CASE v.t = "none" -> FALSE
      [] v.t = "str" -> v.s # ""
      [] v.t \in {"int", "bool"} -> v.n # 0
      [] v.t = "float" -> v.s # "fin" \/ v.n # 0
      [] v.t \in {"list", "dict"} -> v.d # <<>>
      [] OTHER -> TRUE

Digit == <<"0", "1", "2", "3", "4", "5", "6", "7", "8", "9">>

RECURSIVE NatToStr(_)
NatToStr(n) ==
    IF n < 10 THEN Digit[n + 1] ELSE NatToStr(n \div 10) \o Digit[(n % 10) + 1]
IntToStr(n) == IF n < 0 THEN "-" \o NatToStr(-n) ELSE NatToStr(n)

\* repr(v) and str(v); they differ on a str only
RECURSIVE PyRepr(_)
RECURSIVE JoinRepr(_, _, _)
JoinRepr(entries, i, withKeys) ==
    IF i > Len(entries) THEN ""
    ELSE (IF i > 1 THEN ", " ELSE "")
         \o (IF withKeys THEN "'" \o entries[i].k \o "': " ELSE "")
         \o PyRepr(entries[i].v)
         \o JoinRepr(entries, i + 1, withKeys)
PyRepr(v) ==
    CASE v.t = "none" -> "None"
      [] v.t = "str" -> "'" \o v.s \o "'"
      [] v.t = "int" -> IntToStr(v.n)
      [] v.t = "bool" -> IF v.n = 1 THEN "True" ELSE "False"
      [] v.t = "float" ->
            IF v.s = "fin"
            THEN (IF v.n < 0 THEN "-" ELSE "")
                 \o NatToStr((IF v.n < 0 THEN -v.n ELSE v.n) \div 10) \o "."
                 \o Digit[((IF v.n < 0 THEN -v.n ELSE v.n) % 10) + 1]
            ELSE v.s
      [] v.t = "list" -> "[" \o JoinRepr(v.d, 1, FALSE) \o "]"
      [] v.t = "dict" -> "{" \o JoinRepr(v.d, 1, TRUE) \o "}"
      [] OTHER -> "<object>"
PyStr(v) == IF IsStr(v) THEN Str(v.s) ELSE Str(PyRepr(v))

\* int(v): the integer, or the exception int() raises.  A str is a decimal
\* literal when it is the text of an integer of -MaxLiteral..MaxLiteral.
PyInt(v) ==
    CASE v.t \in {"int", "bool"} -> IntV(v.n)
      [] v.t = "float" ->
            IF v.s = "inf" THEN Raise("OverflowError")
            ELSE IF v.s = "nan" THEN Raise("ValueError")
            ELSE IntV(IF v.n < 0 THEN -((-v.n) \div 10) ELSE v.n \div 10)
      [] v.t = "str" ->
            IF \E n \in -MaxLiteral..MaxLiteral : IntToStr(n) = v.s
            THEN IntV(CHOOSE n \in -MaxLiteral..MaxLiteral : IntToStr(n) = v.s)
            ELSE Raise("ValueError")
      [] OTHER -> Raise("TypeError")

\* the first exception among results, None when there is none
FirstRaise(results) ==
    IF \E i \in 1..Len(results) : IsRaise(results[i])
    THEN results[CHOOSE i \in 1..Len(results) :
             IsRaise(results[i]) /\ \A j \in 1..(i - 1) : ~IsRaise(results[j])]
    ELSE None

----------------------------------------------------------------------------
(* utils_better_code_but_broken.py: the tool-call normalizers.  A value the
   code computes once and reads several times is the parameter of a
   definition of its own. *)

\* x if isinstance(x, dict) else {}
AsDict(x) == IF IsDict(x) THEN x ELSE Dict(<<>>)
\* x or {}
OrEmptyDict(x) == IF Truthy(x) THEN x ELSE Dict(<<>>)

\* str(x) unless x is a str or None (the `arguments` of a function)
NormalizeArguments(arguments_value) ==
    IF IsStr(arguments_value) \/ IsNone(arguments_value)
    THEN arguments_value
    ELSE PyStr(arguments_value)

\* x if isinstance(x, str) else None (the `name` of a function)
NormalizeName(name_value) == IF IsStr(name_value) THEN name_value ELSE None

\* function_value of _build_tool_call_function: the `function` of the tool
\* call, or the top-level name/arguments when it is None
FunctionValue(tool_call_dict) ==
    IF IsNone(Get(tool_call_dict, "function"))
       /\ (Has(tool_call_dict, "name") \/ Has(tool_call_dict, "arguments"))
    THEN Dict(<<Entry("name", Get(tool_call_dict, "name")),
                Entry("arguments", Get(tool_call_dict, "arguments"))>>)
    ELSE Get(tool_call_dict, "function")

\* _build_tool_call_function from function_value on
NormalizeFunction(function_value) ==
    IF IsNone(function_value) THEN None
    ELSE IF ~IsDict(function_value) THEN None
    ELSE Dict(<<Entry("name", NormalizeName(Get(function_value, "name"))),
                Entry("arguments",
                      NormalizeArguments(Get(function_value, "arguments")))>>
              \o Others(function_value, {"name", "arguments"}))

_build_tool_call_function(tool_call_dict) ==
    NormalizeFunction(FunctionValue(tool_call_dict))

\* except (TypeError, ValueError): index_normalized = 0; any other
\* exception leaves the function
ExceptTypeOrValueError(result) ==
    IF IsRaise(result) /\ result.s \in {"TypeError", "ValueError"}
    THEN IntV(0)
    ELSE result

\* int(index_value) if index_value is not None else 0, in its try/except
IndexNormalized(index_value) ==
    IF IsNone(index_value) THEN IntV(0)
    ELSE ExceptTypeOrValueError(PyInt(index_value))

TypeNormalized(type_value) ==
    IF IsStr(type_value) /\ Truthy(type_value) THEN type_value ELSE Str("function")

IdNormalized(id_value) ==
    IF ~IsNone(id_value) /\ ~IsStr(id_value) THEN PyStr(id_value) ELSE id_value

\* _build_tool_call_delta from index_normalized on
NormalizedToolCall(tool_call_dict, index_normalized) ==
    IF IsRaise(index_normalized) THEN index_normalized
    ELSE Dict(<<Entry("index", index_normalized),
                Entry("id", IdNormalized(Get(tool_call_dict, "id"))),
                Entry("type", TypeNormalized(Get(tool_call_dict, "type"))),
                Entry("function", _build_tool_call_function(tool_call_dict))>>
              \o Others(tool_call_dict, {"index", "id", "type", "function"}))

\* _build_tool_call_delta from tool_call_dict on
ToolCallDeltaOfDict(tool_call_dict) ==
    NormalizedToolCall(tool_call_dict,
                       IndexNormalized(Get(tool_call_dict, "index")))

_build_tool_call_delta(tool_call_arg) == ToolCallDeltaOfDict(AsDict(tool_call_arg))

\* the list a comprehension builds, or the exception that left it
ListOrRaise(built) ==
    IF IsRaise(FirstRaise(built)) THEN FirstRaise(built) ELSE List(built)

\* [_build_tool_call_delta(call or {}) for call in tool_calls]
BuildEachToolCall(calls) ==
    ListOrRaise([i \in 1..Len(calls) |->
                    _build_tool_call_delta(OrEmptyDict(calls[i]))])

_build_tool_calls(tool_calls) ==
    IF IsNone(tool_calls) THEN None
    ELSE IF IsList(tool_calls) THEN BuildEachToolCall(Items(tool_calls))
    ELSE BuildEachToolCall(<<tool_calls>>)

_build_anthropic_tool_use(tool_use) ==
    IF ~Truthy(tool_use) \/ ~IsDict(tool_use) THEN None
    ELSE _build_tool_call_delta(
             Dict(<<Entry("index", GetOr(tool_use, "index", IntV(0))),
                    Entry("id", Get(tool_use, "id")),
                    Entry("type", GetOr(tool_use, "type", Str("function"))),
                    Entry("function",
                          Dict(<<Entry("name", Get(tool_use, "name")),
                                 Entry("arguments", Get(tool_use, "input"))>>))>>))

_build_function_call(function_call) ==
    IF ~Truthy(function_call) \/ ~IsDict(function_call) THEN None
    ELSE Dict(<<Entry("name", NormalizeName(Get(function_call, "name"))),
                Entry("arguments",
                      NormalizeArguments(Get(function_call, "arguments")))>>
              \o Others(function_call, {"name", "arguments"}))

_tool_call_from_function_call(function_call) ==
    _build_tool_call_delta(
        Dict(<<Entry("index", IntV(0)),
               Entry("id", None),
               Entry("type", Str("function")),
               Entry("function", function_call)>>))

----------------------------------------------------------------------------
(* utils_better_code_but_broken.py: _build_delta *)

\* list.append and list.extend on collected_tool_calls
ListInsertFirst(lst, item) == <<item>> \o lst
ListAppend(lst, item) == Append(lst, item)
ListExtend(lst, more) == lst \o more

\* the locals of _build_delta before its loop
DeltaLocals0 ==
    [processed |-> <<>>, collected |-> <<>>, was_none |-> FALSE, raised |-> None]

\* the `tool_calls` branch, from normalized_tool_calls on
CollectToolCalls(st, normalized_tool_calls) ==
    IF IsRaise(normalized_tool_calls)
    THEN [st EXCEPT !.raised = normalized_tool_calls]
    ELSE IF Truthy(normalized_tool_calls)
    THEN [st EXCEPT !.collected = ListExtend(@, Items(normalized_tool_calls))]
    ELSE st

\* the `tool_use` branch, from anthropic_tool_call on
CollectToolUse(st, key, anthropic_tool_call) ==
    IF IsRaise(anthropic_tool_call)
    THEN [st EXCEPT !.raised = anthropic_tool_call]
    ELSE IF Truthy(anthropic_tool_call)
    THEN [st EXCEPT !.collected = ListAppend(@, anthropic_tool_call),
                    !.processed = Append(@, Entry(key, anthropic_tool_call))]
    ELSE st

\* the `function_call` branch, from normalized_function_call on
CollectFunctionCall(st, key, normalized_function_call) ==
    IF Truthy(normalized_function_call)
    THEN [st EXCEPT !.collected =
             ListAppend(@, _tool_call_from_function_call(normalized_function_call)),
                    !.processed = Append(@, Entry(key, normalized_function_call))]
    ELSE st

\* one iteration of the loop over delta_dict.items()
DeltaStep(st, key, value) ==
    IF IsRaise(st.raised) THEN st
    ELSE IF key = "tool_calls" THEN
        IF IsNone(value) THEN [st EXCEPT !.was_none = TRUE]
        ELSE CollectToolCalls(st, _build_tool_calls(value))
    ELSE IF key = "tool_use"
    THEN CollectToolUse(st, key, _build_anthropic_tool_use(value))
    ELSE IF key = "function_call"
    THEN CollectFunctionCall(st, key, _build_function_call(value))
    ELSE [st EXCEPT !.processed = Append(@, Entry(key, value))]

RECURSIVE DeltaLoop(_, _, _)
DeltaLoop(entries, i, st) ==
    IF i > Len(entries) THEN st
    ELSE DeltaLoop(entries, i + 1, DeltaStep(st, entries[i].k, entries[i].v))

\* the locals of _build_delta after its loop
DeltaLocals(delta_arg) == DeltaLoop(AsDict(delta_arg).d, 1, DeltaLocals0)

\* ResolveToolCalls with the test for an explicit null left out
ResolveToolCallsNoNull(delta_dict, st) ==
    IF st.collected # <<>>
    THEN SetItem(Dict(st.processed), "tool_calls", List(st.collected))
    ELSE IF Has(delta_dict, "tool_calls")
    THEN SetItem(Dict(st.processed), "tool_calls", List(<<>>))
    ELSE Dict(st.processed)

\* the if/elif chain that sets processed["tool_calls"]
ResolveToolCalls(delta_dict, st) ==
    IF st.collected # <<>>
    THEN SetItem(Dict(st.processed), "tool_calls", List(st.collected))
    ELSE IF st.was_none
    THEN SetItem(Dict(st.processed), "tool_calls", None)
    ELSE IF Has(delta_dict, "tool_calls")
    THEN SetItem(Dict(st.processed), "tool_calls", List(<<>>))
    ELSE Dict(st.processed)

\* _build_delta after its loop: the exception that left the loop, or the
\* resolved mapping
DeltaReturn(delta_dict, st) ==
    IF IsRaise(st.raised) THEN st.raised ELSE ResolveToolCalls(delta_dict, st)

_build_delta(delta_arg) == DeltaReturn(AsDict(delta_arg), DeltaLocals(delta_arg))

----------------------------------------------------------------------------
(* utils_better_code_but_broken.py: _build_choice, _build_chunk_payload *)

\* TextFallback without the test of the delta's own content
TextFallbackAlways(delta_dict, choice_dict) ==
    IF Truthy(Get(choice_dict, "text"))
    THEN SetItem(delta_dict, "content", PyStr(Get(choice_dict, "text")))
    ELSE delta_dict

\* the text fallback of _build_choice
TextFallback(delta_dict, choice_dict) ==
    IF ~Truthy(Get(delta_dict, "content")) /\ Truthy(Get(choice_dict, "text"))
    THEN SetItem(delta_dict, "content", PyStr(Get(choice_dict, "text")))
    ELSE delta_dict

\* _build_choice from delta_dict on
ChoiceReturn(choice_dict, delta_dict) ==
    IF IsRaise(delta_dict) THEN delta_dict
    ELSE Dict(<<Entry("index", Get(choice_dict, "index")),
                Entry("delta", TextFallback(delta_dict, choice_dict)),
                Entry("finish_reason", Get(choice_dict, "finish_reason")),
                Entry("logprobs", Get(choice_dict, "logprobs"))>>)

\* _build_choice from choice_dict on
ChoiceOfDict(choice_dict) ==
    ChoiceReturn(choice_dict,
                 _build_delta(OrEmptyDict(Get(choice_dict, "delta"))))

_build_choice(choice_arg) == ChoiceOfDict(AsDict(choice_arg))

\* choices_raw wrapped in a list when it is not one
AsChoiceList(choices_raw) ==
    IF IsList(choices_raw) THEN Items(choices_raw) ELSE <<choices_raw>>

\* chunk_data.get("choices") or []
OrEmptyList(x) == IF Truthy(x) THEN x ELSE List(<<>>)

\* choices_raw of _build_chunk_payload, as the list it iterates
ChoicesRaw(chunk_arg) == AsChoiceList(OrEmptyList(Get(chunk_arg, "choices")))

\* [_build_choice(choice) for choice in choices_raw]
BuildEachChoice(choices_raw) ==
    ListOrRaise([i \in 1..Len(choices_raw) |-> _build_choice(choices_raw[i])])

\* _build_chunk_payload from choices on
PayloadReturn(chunk_arg, choices) ==
    IF IsRaise(choices) THEN choices
    ELSE Dict(<<Entry("id", Get(chunk_arg, "id")),
                Entry("created", Get(chunk_arg, "created")),
                Entry("model", Get(chunk_arg, "model")),
                Entry("object", Get(chunk_arg, "object")),
                Entry("system_fingerprint", Get(chunk_arg, "system_fingerprint")),
                Entry("provider_specific_fields",
                      Get(chunk_arg, "provider_specific_fields")),
                Entry("citations", Get(chunk_arg, "citations")),
                Entry("choices", choices)>>
              \o (IF Has(chunk_arg, "usage")
                  THEN <<Entry("usage", Get(chunk_arg, "usage"))>>
                  ELSE <<>>))

_build_chunk_payload(chunk_arg) ==
    PayloadReturn(chunk_arg, BuildEachChoice(ChoicesRaw(chunk_arg)))

----------------------------------------------------------------------------
(* The inputs the calls are made with *)

\* the ordered dicts of at most n entries, with distinct keys of
\* DOMAIN valuesOf and the value of key k in valuesOf[k]
RECURSIVE OrderedDicts(_, _)
OrderedDicts(valuesOf, n) ==
    IF n = 0 THEN {<<>>}
    ELSE LET shorter == OrderedDicts(valuesOf, n - 1)
         IN  shorter \cup
             UNION { UNION { {Append(e, Entry(k, v)) : v \in valuesOf[k]} :
                             k \in DOMAIN valuesOf \ {e[i].k : i \in 1..Len(e)} } :
                     e \in {x \in shorter : Len(x) = n - 1} }

NativeCall ==
    Dict(<<Entry("index", IntV(1)), Entry("id", Str("c1")),
           Entry("function", Dict(<<Entry("name", Str("n")),
                                    Entry("arguments", Str("{}"))>>))>>)
FlatCall == Dict(<<Entry("name", Str("h")), Entry("arguments", Dict(<<>>))>>)
InfCall == Dict(<<Entry("index", FloatInf)>>)

ToolCallsValues ==
    {None, FlatCall, List(<<InfCall>>)}
    \cup {List(s) : s \in UNION {[1..n -> {NativeCall, None}] :
                                 n \in 0..MaxToolCalls}}
ToolUseValues ==
    {None, Dict(<<>>), Str("x"),
     Dict(<<Entry("id", Str("a")), Entry("name", Str("f")),
            Entry("input", Str("{}"))>>),
     Dict(<<Entry("id", IntV(7)), Entry("name", Str("f")),
            Entry("input", Dict(<<>>)), Entry("index", Str("2"))>>)}
FunctionCallValues ==
    {None, Dict(<<>>),
     Dict(<<Entry("name", Str("g")), Entry("arguments", Str("{}"))>>),
     Dict(<<Entry("name", Str("g")), Entry("arguments", IntV(7)),
            Entry("extra", IntV(1))>>)}
DeltaValues ==
    [tool_calls |-> ToolCallsValues,
     tool_use |-> ToolUseValues,
     function_call |-> FunctionCallValues,
     content |-> {Str("hi")},
     role |-> {Str("assistant")}]
DeltaInputs ==
    {None, Str("x")} \cup {Dict(e) : e \in OrderedDicts(DeltaValues, MaxDeltaKeys)}

----------------------------------------------------------------------------
(* A call of _build_delta *)

InitDelta ==
    /\ pc = "build_delta"
    /\ delta \in DeltaInputs
    /\ processed = None
    /\ collected_tool_calls = <<>>
    /\ tool_calls_was_none = FALSE
    /\ tool_call = None /\ normalized = None /\ renormalized = None
    /\ chunk_data = None /\ payload = None
    /\ choice = None /\ choice_out = None
    /\ chunk = None /\ generic_chunk = None /\ yielded = <<>>

BuildDelta ==
    /\ pc = "build_delta"
    /\ \E result \in {_build_delta(delta)} :
          /\ processed' = result
          /\ pc' = IF IsRaise(result) THEN "raised" ELSE "returned"
    /\ \E st \in {DeltaLocals(delta)} :
          /\ collected_tool_calls' = st.collected
          /\ tool_calls_was_none' = st.was_none
    /\ UNCHANGED <<delta, tool_call, normalized, renormalized, chunk_data,
                   payload, choice, choice_out, chunk, generic_chunk, yielded>>

NextDelta == BuildDelta
SpecDelta == InitDelta /\ [][NextDelta]_vars

\* the entries of the output `tool_calls` (none when it is absent or null)
OutCalls(out) ==
    IF Has(out, "tool_calls") /\ IsList(Get(out, "tool_calls"))
    THEN Items(Get(out, "tool_calls"))
    ELSE <<>>

\* what one key of the input delta contributes to the output `tool_calls`
Contribution(key, value) ==
    IF key = "tool_calls" /\ ~IsNone(value) THEN Items(_build_tool_calls(value))
    ELSE IF key = "tool_use" /\ ~IsNone(_build_anthropic_tool_use(value))
    THEN <<_build_anthropic_tool_use(value)>>
    ELSE IF key = "function_call" /\ ~IsNone(_build_function_call(value))
    THEN <<_tool_call_from_function_call(_build_function_call(value))>>
    ELSE <<>>

RECURSIVE InKeyOrder(_, _)
InKeyOrder(entries, i) ==
    IF i > Len(entries) THEN <<>>
    ELSE Contribution(entries[i].k, entries[i].v) \o InKeyOrder(entries, i + 1)

\* the number of entries of an input `tool_calls` value: a single object
\* counts as one
NumToolCallEntries(d) ==
    IF ~Has(d, "tool_calls") \/ IsNone(Get(d, "tool_calls")) THEN 0
    ELSE IF IsList(Get(d, "tool_calls")) THEN Len(Get(d, "tool_calls").d)
    ELSE 1

\* C1: when _build_delta returns, the output `tool_calls` is (a) the
\* accumulated list when at least one tool call was accumulated, (b) else
\* null when the input `tool_calls` is null, (c) else the empty list when the
\* input has a `tool_calls` key, (d) else absent.
C1_ToolCallsPriority ==
    pc = "returned" =>
        IF collected_tool_calls # <<>>
        THEN Has(processed, "tool_calls")
             /\ Get(processed, "tool_calls") = List(collected_tool_calls)
        ELSE IF Has(delta, "tool_calls") /\ IsNone(Get(delta, "tool_calls"))
        THEN Has(processed, "tool_calls") /\ IsNone(Get(processed, "tool_calls"))
        ELSE IF IsDict(delta) /\ Has(delta, "tool_calls")
        THEN Has(processed, "tool_calls")
             /\ Get(processed, "tool_calls") = List(<<>>)
        ELSE ~Has(processed, "tool_calls")

\* C1 witness: an explicit null `tool_calls` beside a `tool_use` that adds
\* nothing came out as null.
C1_Witness ==
    /\ pc = "returned"
    /\ IsDict(delta) /\ Has(delta, "tool_calls") /\ Has(delta, "tool_use")
    /\ IsNone(Get(delta, "tool_calls"))
    /\ collected_tool_calls = <<>>
    /\ Has(processed, "tool_calls") /\ IsNone(Get(processed, "tool_calls"))

\* a tool-call signal under `key`: the key is there and holds a mapping
\* (the reading of "present" that asks least of the code)
SignalPresent(d, key) == Has(d, key) /\ IsDict(Get(d, key))

\* C2: when _build_delta returns, the output `tool_calls` has one entry per
\* entry of the input `tool_calls`, plus one when `tool_use` is present and
\* one when `function_call` is present: no signal is dropped.
C2_EverySignalFolded ==
    (pc = "returned" /\ IsDict(delta)) =>
        Len(OutCalls(processed)) =
            NumToolCallEntries(delta)
            + (IF SignalPresent(delta, "tool_use") THEN 1 ELSE 0)
            + (IF SignalPresent(delta, "function_call") THEN 1 ELSE 0)

\* C3 as claimed: whatever the order of the keys, the output `tool_calls`
\* lists the `tool_calls` entries, then the `tool_use` entry, then the
\* `function_call` entry.
C3_FixedSourceOrder ==
    (pc = "returned" /\ IsDict(delta)) =>
        OutCalls(processed) =
            Contribution("tool_calls", Get(delta, "tool_calls"))
            \o Contribution("tool_use", Get(delta, "tool_use"))
            \o Contribution("function_call", Get(delta, "function_call"))

\* C3 amended: the output `tool_calls` lists the derived entries in the order
\* in which their source keys occur in the input delta.
C3_InputKeyOrder ==
    (pc = "returned" /\ IsDict(delta)) =>
        OutCalls(processed) = InKeyOrder(delta.d, 1)

\* C3 witness: `function_call` came before `tool_use` in the input, and its
\* entry is the first of two different entries of the output.
C3_Witness ==
    /\ pc = "returned"
    /\ IsDict(delta) /\ Keys(delta) = <<"function_call", "tool_use">>
    /\ Len(OutCalls(processed)) = 2
    /\ OutCalls(processed)[1] # OutCalls(processed)[2]
    /\ OutCalls(processed)[1] =
           _tool_call_from_function_call(_build_function_call(Get(delta, "function_call")))

\* C4: when _build_delta returns, every input key other than `tool_calls` is
\* an output key, and the keys other than `tool_calls`, `tool_use` and
\* `function_call` keep their values and their relative order.
C4_KeysPreserved ==
    (pc = "returned" /\ IsDict(delta)) =>
        /\ \A i \in 1..Len(delta.d) :
               delta.d[i].k # "tool_calls" => Has(processed, delta.d[i].k)
        /\ Others(processed, {"tool_calls", "tool_use", "function_call"})
               = Others(delta, {"tool_calls", "tool_use", "function_call"})

----------------------------------------------------------------------------
(* A call of _build_tool_call_delta, and a second call on its result *)

ToolCallValues ==
    [index |-> {None, IntV(2), Str("2"), Str("not-a-number"), List(<<>>),
                FloatInf, FloatNan, FloatTenths(25), Bool(TRUE)},
     id |-> {None, Str("a"), IntV(7)},
     type |-> {None, Str(""), Str("custom")},
     function |-> {None, Str("abc"), Dict(<<>>),
                   Dict(<<Entry("name", Str("f")), Entry("arguments", Str("{}"))>>),
                   Dict(<<Entry("name", IntV(5)), Entry("arguments", Dict(<<>>)),
                          Entry("extra", IntV(1))>>)},
     name |-> {Str("f"), None},
     arguments |-> {Str("{}"), IntV(7)},
     extra |-> {IntV(1)}]
ToolCallInputs ==
    {None, Str("x")}
    \cup {Dict(e) : e \in OrderedDicts(ToolCallValues, MaxToolCallKeys)}

InitToolCall ==
    /\ pc = "build_tool_call_delta"
    /\ tool_call \in ToolCallInputs
    /\ normalized = None /\ renormalized = None
    /\ delta = None /\ processed = None
    /\ collected_tool_calls = <<>> /\ tool_calls_was_none = FALSE
    /\ chunk_data = None /\ payload = None
    /\ choice = None /\ choice_out = None
    /\ chunk = None /\ generic_chunk = None /\ yielded = <<>>

BuildToolCallDelta ==
    /\ pc = "build_tool_call_delta"
    /\ \E result \in {_build_tool_call_delta(tool_call)} :
          /\ normalized' = result
          /\ pc' = IF IsRaise(result) THEN "raised" ELSE "returned"
    /\ UNCHANGED <<delta, processed, collected_tool_calls, tool_calls_was_none,
                   tool_call, renormalized, chunk_data, payload, choice,
                   choice_out, chunk, generic_chunk, yielded>>

BuildToolCallDeltaAgain ==
    /\ pc = "returned"
    /\ \E result \in {_build_tool_call_delta(normalized)} :
          /\ renormalized' = result
          /\ pc' = IF IsRaise(result) THEN "raised" ELSE "returned_again"
    /\ UNCHANGED <<delta, processed, collected_tool_calls, tool_calls_was_none,
                   tool_call, normalized, chunk_data, payload, choice,
                   choice_out, chunk, generic_chunk, yielded>>

NextToolCall == BuildToolCallDelta \/ BuildToolCallDeltaAgain
SpecToolCall == InitToolCall /\ [][NextToolCall]_vars

\* C7: _build_tool_call_delta never raises, whatever the `index`, and the
\* output `index` is an integer.
C7_IndexNeverRaises ==
    /\ pc # "raised"
    /\ pc = "returned" => Get(normalized, "index").t = "int"

\* a function object normalized as the claim describes: `name` kept when a
\* string, else null; `arguments` kept when a string or null, else its
\* string form; the other keys as they are
FunctionAsClaimed(f) ==
    Dict(<<Entry("name", IF IsStr(Get(f, "name")) THEN Get(f, "name") ELSE None),
           Entry("arguments",
                 IF IsStr(Get(f, "arguments")) \/ IsNone(Get(f, "arguments"))
                 THEN Get(f, "arguments") ELSE PyStr(Get(f, "arguments")))>>
         \o Others(f, {"name", "arguments"}))

\* C9: the output `function` is (a) the normalized `function` object when
\* the tool call has one (a mapping); (b) otherwise, built from the
\* top-level `name`/`arguments` when the tool call has any; null only when
\* neither applies.
C9_FunctionResolution ==
    (pc = "returned" /\ IsDict(tool_call)) =>
        LET f == Get(tool_call, "function")
            flattened == Has(tool_call, "name") \/ Has(tool_call, "arguments")
            out == Get(normalized, "function")
        IN  /\ IsDict(f) => out = FunctionAsClaimed(f)
            /\ (~IsDict(f) /\ flattened) =>
                   out = FunctionAsClaimed(
                             Dict(<<Entry("name", Get(tool_call, "name")),
                                    Entry("arguments", Get(tool_call, "arguments"))>>))
            /\ IsNone(out) => (~IsDict(f) /\ ~flattened)

\* C10: _build_tool_call_delta applied to its own result returns it
\* unchanged, keys in the same order.
C10_Idempotent ==
    pc = "returned_again" => renormalized = normalized

----------------------------------------------------------------------------
(* A call of _build_choice *)

ChoiceDeltaValues ==
    {None, Str("zz"), Dict(<<>>),
     Dict(<<Entry("content", None)>>),
     Dict(<<Entry("content", Str(""))>>),
     Dict(<<Entry("content", List(<<>>))>>),
     Dict(<<Entry("content", Str("existing"))>>),
     Dict(<<Entry("role", Str("assistant"))>>),
     Dict(<<Entry("content", Str("existing")),
            Entry("tool_calls", List(<<NativeCall>>))>>),
     Dict(<<Entry("tool_calls", None), Entry("content", Str(""))>>),
     Dict(<<Entry("tool_calls", List(<<InfCall>>))>>)}
ChoiceValues ==
    [text |-> {None, Str(""), Str("hello"), IntV(5), IntV(0)},
     delta |-> ChoiceDeltaValues,
     index |-> {IntV(0)},
     finish_reason |-> {None, Str("stop")}]
ChoiceInputs ==
    {None, Str("x")} \cup {Dict(e) : e \in OrderedDicts(ChoiceValues, MaxChoiceKeys)}

InitChoice ==
    /\ pc = "build_choice"
    /\ choice \in ChoiceInputs
    /\ choice_out = None
    /\ delta = None /\ processed = None
    /\ collected_tool_calls = <<>> /\ tool_calls_was_none = FALSE
    /\ tool_call = None /\ normalized = None /\ renormalized = None
    /\ chunk_data = None /\ payload = None
    /\ chunk = None /\ generic_chunk = None /\ yielded = <<>>

BuildChoice ==
    /\ pc = "build_choice"
    /\ \E result \in {_build_choice(choice)} :
          /\ choice_out' = result
          /\ pc' = IF IsRaise(result) THEN "raised" ELSE "returned"
    /\ UNCHANGED <<delta, processed, collected_tool_calls, tool_calls_was_none,
                   tool_call, normalized, renormalized, chunk_data, payload,
                   choice, chunk, generic_chunk, yielded>>

NextChoice == BuildChoice
SpecChoice == InitChoice /\ [][NextChoice]_vars

\* the `delta` of the input choice, as the mapping the code reads
InputDelta(c) == IF IsDict(Get(c, "delta")) THEN Get(c, "delta") ELSE Dict(<<>>)

\* C6: when _build_choice returns, the output delta is a mapping; its
\* `content` is the string form of the choice's `text` when the delta's own
\* content is missing or empty and `text` is truthy, and the input delta's
\* content, unchanged, in every other case.
C6_TextFallback ==
    pc = "returned" =>
        LET out == Get(choice_out, "delta")
            own == Get(InputDelta(choice), "content")
            text == Get(choice, "text")
        IN  /\ IsDict(out)
            /\ IF ~Truthy(own) /\ Truthy(text)
               THEN /\ Has(out, "content")
                    /\ IsStr(Get(out, "content"))
                    /\ Get(out, "content") = PyStr(text)
               ELSE /\ Has(out, "content") <=> Has(InputDelta(choice), "content")
                    /\ Get(out, "content") = own

\* C6 witness: an integer `text` replaced an empty delta content by its
\* string form.
C6_Witness ==
    /\ pc = "returned"
    /\ Get(choice, "text") = IntV(5)
    /\ Get(InputDelta(choice), "content") = Str("")
    /\ Get(Get(choice_out, "delta"), "content") = Str("5")

----------------------------------------------------------------------------
(* A call of _build_chunk_payload *)

IndexChoice == Dict(<<Entry("index", IntV(0))>>)
TextChoice == Dict(<<Entry("text", Str("hello")), Entry("delta", Dict(<<>>))>>)

ChunkValues ==
    [id |-> {Str("chunk-1")},
     model |-> {Str("m")},
     usage |-> {None, Dict(<<Entry("total_tokens", IntV(3))>>)},
     choices |-> {None, Dict(<<>>), IndexChoice, TextChoice}
                 \cup {List(s) :
                          s \in UNION {[1..n -> {Dict(<<>>), IndexChoice, TextChoice}] :
                                       n \in 0..MaxChoices}}]
ChunkInputs == {Dict(e) : e \in OrderedDicts(ChunkValues, MaxChunkKeys)}

InitChunk ==
    /\ pc = "build_chunk_payload"
    /\ chunk_data \in ChunkInputs
    /\ payload = None
    /\ delta = None /\ processed = None
    /\ collected_tool_calls = <<>> /\ tool_calls_was_none = FALSE
    /\ tool_call = None /\ normalized = None /\ renormalized = None
    /\ choice = None /\ choice_out = None
    /\ chunk = None /\ generic_chunk = None /\ yielded = <<>>

BuildChunkPayload ==
    /\ pc = "build_chunk_payload"
    /\ \E result \in {_build_chunk_payload(chunk_data)} :
          /\ payload' = result
          /\ pc' = IF IsRaise(result) THEN "raised" ELSE "returned"
    /\ UNCHANGED <<delta, processed, collected_tool_calls, tool_calls_was_none,
                   tool_call, normalized, renormalized, chunk_data, choice,
                   choice_out, chunk, generic_chunk, yielded>>

NextChunk == BuildChunkPayload
SpecChunk == InitChunk /\ [][NextChunk]_vars

\* C5: when _build_chunk_payload returns, the output `choices` is a list:
\* empty when the input has no `choices`, and, for a single choice mapping
\* given directly, the list of that one normalized choice, as for [c].
C5_ChoicesCoerced ==
    pc = "returned" =>
        LET given == Get(chunk_data, "choices")
            out == Get(payload, "choices")
        IN  /\ Has(payload, "choices") /\ IsList(out)
            /\ ~Has(chunk_data, "choices") => out = List(<<>>)
            /\ IsDict(given) =>
                   /\ out = List(<<_build_choice(given)>>)
                   /\ out = Get(_build_chunk_payload(
                                    SetItem(chunk_data, "choices", List(<<given>>))),
                                "choices")

----------------------------------------------------------------------------
(* utils.py: the generator model_response_stream_to_generic_streaming_chunks.
   Its body and the bodies of the generators it delegates to (yield from) run
   one after the other; at a yield the generator is suspended with the chunk
   handed out, and resuming it leads to its return. *)

StreamDeltaValues ==
    {None}
    \cup {Obj(<<Entry("content", c), Entry("tool_calls", t)>>) :
             c \in {None, Str("hi")},
             t \in {None, List(<<NativeCall, FlatCall>>)}}
StreamChoiceValues ==
    {Obj(<<Entry("finish_reason", f), Entry("delta", d)>>) :
        f \in {None, Str(""), Str("stop")}, d \in StreamDeltaValues}
StreamInputs ==
    {Obj(<<Entry("provider_specific_fields", p), Entry("choices", List(s))>>) :
        p \in {None, Dict(<<Entry("k", Str("v"))>>)},
        s \in UNION {[1..n -> StreamChoiceValues] : n \in 0..MaxChoices}}

InitStream ==
    /\ pc = "model_response_stream_to_generic_streaming_chunks"
    /\ chunk \in StreamInputs
    /\ generic_chunk = None
    /\ yielded = <<>>
    /\ delta = None /\ processed = None
    /\ collected_tool_calls = <<>> /\ tool_calls_was_none = FALSE
    /\ tool_call = None /\ normalized = None /\ renormalized = None
    /\ chunk_data = None /\ payload = None
    /\ choice = None /\ choice_out = None

\* choices[0]
LastChoice(choices) == choices[Len(choices)]
FirstChoice(choices) == choices[1]

\* bool(choice.finish_reason)
IsFinished(streaming_choice) == Bool(Truthy(Get(streaming_choice, "finish_reason")))

StreamUnchanged ==
    UNCHANGED <<delta, processed, collected_tool_calls, tool_calls_was_none,
                tool_call, normalized, renormalized, chunk_data, payload,
                choice, choice_out, chunk>>

\* `yield generic_chunk` followed by the generator's return
Yield(value) ==
    /\ yielded' = Append(yielded, value)
    /\ pc' = "suspended"

ModelResponseStreamToGenericStreamingChunks ==
    /\ pc = "model_response_stream_to_generic_streaming_chunks"
    /\ generic_chunk' =
           Dict(<<Entry("text", Str("")),
                  Entry("tool_use", None),
                  Entry("is_finished", Bool(FALSE)),
                  Entry("finish_reason", Str("")),
                  Entry("usage", None),
                  Entry("index", IntV(0)),
                  Entry("provider_specific_fields",
                        Get(chunk, "provider_specific_fields"))>>)
    /\ pc' = "_populate_from_streaming_choices"
    /\ UNCHANGED yielded
    /\ StreamUnchanged

PopulateFromStreamingChoices ==
    /\ pc = "_populate_from_streaming_choices"
    /\ LET choices == Items(Get(chunk, "choices"))
       IN  IF ~Truthy(Get(chunk, "choices"))
           THEN /\ Yield(generic_chunk)
                /\ UNCHANGED generic_chunk
           ELSE /\ generic_chunk' =
                       SetItem(SetItem(generic_chunk, "finish_reason",
                                       Get(FirstChoice(choices), "finish_reason")),
                               "is_finished", IsFinished(FirstChoice(choices)))
                /\ pc' = "_populate_from_delta"
                /\ UNCHANGED yielded
    /\ StreamUnchanged

PopulateFromDelta ==
    /\ pc = "_populate_from_delta"
    /\ LET stream_delta ==
               Get(FirstChoice(Items(Get(chunk, "choices"))), "delta")
       IN  IF ~Truthy(stream_delta)
           THEN /\ Yield(generic_chunk)
                /\ UNCHANGED generic_chunk
           ELSE /\ generic_chunk' =
                       SetItem(generic_chunk, "text", Get(stream_delta, "content"))
                /\ pc' = "_populate_tool_use"
                /\ UNCHANGED yielded
    /\ StreamUnchanged

\* both branches of _populate_tool_use yield the chunk as it is
PopulateToolUse ==
    /\ pc = "_populate_tool_use"
    /\ Yield(generic_chunk)
    /\ UNCHANGED generic_chunk
    /\ StreamUnchanged

\* the consumer asks for the next chunk: the generator returns
Resume ==
    /\ pc = "suspended"
    /\ pc' = "done"
    /\ UNCHANGED <<generic_chunk, yielded>>
    /\ StreamUnchanged

NextStream ==
    \/ ModelResponseStreamToGenericStreamingChunks
    \/ PopulateFromStreamingChoices
    \/ PopulateFromDelta
    \/ PopulateToolUse
    \/ Resume
SpecStream == InitStream /\ [][NextStream]_vars

====
